---- MODULE Spec2Model ----
(***************************************************************************)
(* Model of the yamlot tokenizer (package token): the Tokenizer object,   *)
(* its reader, and the NextToken operation with every helper it calls.    *)
(* Characters are one-character strings, texts are sequences of them.     *)
(***************************************************************************)
EXTENDS Integers, Sequences, FiniteSets, TLC

\* ---------------------------------------------------------------- bounds
MaxLen == 4
MaxTerminal == 3
MaxScalar == 3
MaxLines == 2
MaxIndent == 2
MaxFair == 3

\* ------------------------------------------------------------ characters
SP == " "
TAB == "\t"
NL == "\n"
DASH == "-"
DOT == "."
HASH == "#"
Alphabet == {SP, TAB, NL, DASH, DOT, HASH, "a"}

RECURSIVE SeqsUpTo(_, _)
SeqsUpTo(S, n) ==
    IF n = 0 THEN {<<>>}
    ELSE LET shorter == SeqsUpTo(S, n - 1)
         IN  shorter \cup {Append(s, c) : s \in {x \in shorter : Len(x) = n - 1}, c \in S}

\* ----------------------------------------------------------- token model
TokenEOF == "EOF"
TokenError == "ERROR"
TokenDash == "DASH"
TokenPlainScalar == "PLAIN-SCALAR"
TokenNewLine == "NEWLINE"
TokenDocStart == "DOC-START"
TokenDocEnd == "DOC-END"
TokenIndent == "INDENT"
TokenDedent == "DEDENT"

Token(type, value, line, column) ==
    [Type |-> type, Value |-> value, Line |-> line, Column |-> column]

\* mutant: the values are compared whatever the type
TokenEqualAnyValue(a, b) ==
    IF a.Type # b.Type THEN FALSE ELSE a.Value = b.Value

TokenEqual(a, b) ==
    IF a.Type # b.Type THEN FALSE
    ELSE IF a.Type = TokenPlainScalar THEN a.Value = b.Value
    ELSE TRUE

\* errors a call can return
ErrNil == "nil"
ErrEOF == "io.EOF"
ErrRead == "read error"
ErrInvalidUnreadRune == "bufio: invalid use of UnreadRune"
ErrStatus == "unexpected token status"

\* ---------------------------------------------------------- scanner state
statusBlank == "StatusBlank"
statusOneDot == "StatusOneDot"
statusTwoDots == "StatusTwoDots"
statusThreeDots == "StatusThreeDots"
statusOneDash == "StatusOneDash"
statusTwoDashes == "StatusTwoDashes"
statusThreeDashes == "StatusThreeDashes"
statusAfterDash == "StatusAfterDash"
statusScalar == "StatusScalar"

VARIABLES
    data,                   \* the characters the underlying reader delivers
    fault,                  \* TRUE: the reader fails after data, FALSE: it ends
    pos,                    \* characters consumed from the reader
    lastRune,               \* the reader's last operation was a successful ReadRune
    debug,                  \* the debug flag given to NewTokenizer
    printed,                \* lines written to standard output by the debug trace
    panic,                  \* message of the panic that ended the program, "" if none
    line,
    column,
    status,
    indentationLevelStack,
    tokenBuffer,
    tk,                     \* token returned by the last NextToken call
    err,                    \* error returned by the last NextToken call
    history,                \* every (token, error) returned so far, in order
    t1,                     \* first token given to TokenEqual
    t2,                     \* second token given to TokenEqual
    equal                   \* what TokenEqual returned, <<>> before the call

vars == <<data, fault, pos, lastRune, debug, printed, panic, line, column, status,
          indentationLevelStack, tokenBuffer, tk, err, history, t1, t2, equal>>

\* The Tokenizer and its reader as one value, threaded through the helpers.
NoPanic == ""
PanicIndentPop == "cannot pop indentation level"
PanicIndexOutOfRange == "index out of range [0] with length 0"

NoToken == Token("none", <<>>, 0, 0)

NewTokenizer(input, failing, dbg) ==
    [data |-> input, fault |-> failing, pos |-> 0, lastRune |-> FALSE,
     debug |-> dbg, printed |-> 0, panic |-> NoPanic,
     line |-> 1, column |-> 0, status |-> statusBlank,
     indentationLevelStack |-> <<0>>, tokenBuffer |-> <<>>]

Self ==
    [data |-> data, fault |-> fault, pos |-> pos, lastRune |-> lastRune,
     debug |-> debug, printed |-> printed, panic |-> panic,
     line |-> line, column |-> column, status |-> status,
     indentationLevelStack |-> indentationLevelStack,
     tokenBuffer |-> tokenBuffer]

Return(t, token, e) == [t |-> t, tk |-> token, err |-> e]

\* ------------------------------------------------------------- helpers
indentPop(t) ==
    IF Len(t.indentationLevelStack) <= 1
    THEN [t EXCEPT !.panic = PanicIndentPop]
    ELSE [t EXCEPT !.indentationLevelStack =
            SubSeq(t.indentationLevelStack, 1, Len(t.indentationLevelStack) - 1)]

tokenBufferPush(t, token) ==
    [t EXCEPT !.tokenBuffer = Append(t.tokenBuffer, token)]

\* mutant: the buffer is emptied from its end
tokenBufferShiftLast(t) ==
    IF t.tokenBuffer = <<>>
    THEN [t |-> [t EXCEPT !.panic = PanicIndexOutOfRange], tk |-> NoToken]
    ELSE [t |-> [t EXCEPT !.tokenBuffer = SubSeq(t.tokenBuffer, 1, Len(t.tokenBuffer) - 1)],
          tk |-> t.tokenBuffer[Len(t.tokenBuffer)]]

tokenBufferShift(t) ==
    IF t.tokenBuffer = <<>>
    THEN [t |-> [t EXCEPT !.panic = PanicIndexOutOfRange], tk |-> NoToken]
    ELSE [t |-> [t EXCEPT !.tokenBuffer = Tail(t.tokenBuffer)],
          tk |-> Head(t.tokenBuffer)]

\* mutant: the Error token is returned with io.EOF
returnErrorAsEOF(t, e) ==
    Return(t, Token(TokenError, <<>>, t.line, t.column), ErrEOF)

returnError(t, e) ==
    Return(t, Token(TokenError, <<>>, t.line, t.column), e)

returnEOF(t) ==
    Return(t, Token(TokenEOF, <<>>, t.line, t.column), ErrEOF)

\* mutant: the line counter is not advanced
returnNewLineSameLine(t) ==
    Return([t EXCEPT !.column = 0],
           Token(TokenNewLine, <<"\\", "n">>, t.line, t.column), ErrNil)

\* mutant: the column counter is not reset
returnNewLineKeepColumn(t) ==
    Return([t EXCEPT !.line = t.line + 1],
           Token(TokenNewLine, <<"\\", "n">>, t.line, t.column), ErrNil)

returnNewLine(t) ==
    Return([t EXCEPT !.line = t.line + 1, !.column = 0],
           Token(TokenNewLine, <<"\\", "n">>, t.line, t.column), ErrNil)

returnDash(t) ==
    Return(t, Token(TokenDash, <<DASH>>, t.line, t.column), ErrNil)

returnDocStart(t) ==
    Return(t, Token(TokenDocStart, <<DASH, DASH, DASH>>, t.line, t.column - 3), ErrNil)

returnDocEnd(t) ==
    Return(t, Token(TokenDocEnd, <<DOT, DOT, DOT>>, t.line, t.column - 3), ErrNil)

\* the debug trace of readRune: one line on standard output per read
debugPrint(t) ==
    IF t.debug THEN [t EXCEPT !.printed = t.printed + 1] ELSE t

\* mutant: with debug on a successful read returns before counting the column
readRuneDebugSkipsColumn(t) ==
    LET d == debugPrint(t)
    IN  IF t.pos < Len(t.data)
        THEN [t |-> [d EXCEPT !.pos = t.pos + 1,
                              !.column = IF t.debug THEN t.column ELSE t.column + 1,
                              !.lastRune = TRUE],
              ch |-> t.data[t.pos + 1], err |-> ErrNil]
        ELSE [t |-> [d EXCEPT !.lastRune = FALSE], ch |-> "",
              err |-> IF t.fault THEN ErrRead ELSE ErrEOF]

\* reader.ReadRune, the debug trace, the column count
readRune(t) ==
    LET d == debugPrint(t)
    IN  IF t.pos < Len(t.data)
        THEN [t |-> [d EXCEPT !.pos = t.pos + 1, !.column = t.column + 1,
                              !.lastRune = TRUE],
              ch |-> t.data[t.pos + 1], err |-> ErrNil]
        ELSE [t |-> [d EXCEPT !.lastRune = FALSE], ch |-> "",
              err |-> IF t.fault THEN ErrRead ELSE ErrEOF]

\* mutant: the unread leaves the column where it is
unreadRuneKeepsColumn(t) ==
    IF t.lastRune
    THEN [t |-> [t EXCEPT !.pos = t.pos - 1, !.lastRune = FALSE], err |-> ErrNil]
    ELSE [t |-> t, err |-> ErrInvalidUnreadRune]

\* reader.UnreadRune plus the column count
unreadRune(t) ==
    IF t.lastRune
    THEN [t |-> [t EXCEPT !.pos = t.pos - 1, !.column = t.column - 1,
                          !.lastRune = FALSE],
          err |-> ErrNil]
    ELSE [t |-> t, err |-> ErrInvalidUnreadRune]

unreadAndReturnDash(t) ==
    LET u == unreadRune(t)
    IN  IF u.err # ErrNil THEN returnError(u.t, u.err) ELSE returnDash(u.t)

\* reader.Peek: reads nothing, and forbids an unread after it
Peek(t) == [t EXCEPT !.lastRune = FALSE]

\* sq without the spaces and tabs at its end
RECURSIVE TrimRight(_)
TrimRight(sq) ==
    IF sq # <<>> /\ sq[Len(sq)] \in {SP, TAB} THEN TrimRight(SubSeq(sq, 1, Len(sq) - 1))
    ELSE sq

\* mutant: the collected value is trimmed at its end
RECURSIVE collectPlainScalarTrimmed(_, _)
collectPlainScalarTrimmed(t, scalar) ==
    LET peeked == Peek(t)
        value == Token(TokenPlainScalar, TrimRight(scalar), t.line, t.column - Len(scalar))
    IN  IF t.pos >= Len(t.data)
        THEN IF t.fault THEN returnError(peeked, ErrRead)
                        ELSE Return(peeked, value, ErrNil)
        ELSE IF t.data[t.pos + 1] \in {NL, HASH}
        THEN Return(peeked, value, ErrNil)
        ELSE LET r == readRune(peeked)
             IN  IF r.err # ErrNil THEN returnError(r.t, r.err)
                 ELSE collectPlainScalarTrimmed(r.t, Append(scalar, r.ch))

\* mutant: any failure of Peek ends the scalar, as io.EOF does
RECURSIVE collectPlainScalarPeekBreaks(_, _)
collectPlainScalarPeekBreaks(t, scalar) ==
    LET peeked == Peek(t)
        value == Token(TokenPlainScalar, scalar, t.line, t.column - Len(scalar))
    IN  IF t.pos >= Len(t.data) THEN Return(peeked, value, ErrNil)
        ELSE IF t.data[t.pos + 1] \in {NL, HASH}
        THEN Return(peeked, value, ErrNil)
        ELSE LET r == readRune(peeked)
             IN  IF r.err # ErrNil THEN returnError(r.t, r.err)
                 ELSE collectPlainScalarPeekBreaks(r.t, Append(scalar, r.ch))

\* mutant: only a newline ends the scalar, '#' is collected
RECURSIVE collectPlainScalarThroughHash(_, _)
collectPlainScalarThroughHash(t, scalar) ==
    LET peeked == Peek(t)
        value == Token(TokenPlainScalar, scalar, t.line, t.column - Len(scalar))
    IN  IF t.pos >= Len(t.data)
        THEN IF t.fault THEN returnError(peeked, ErrRead)
                        ELSE Return(peeked, value, ErrNil)
        ELSE IF t.data[t.pos + 1] = NL
        THEN Return(peeked, value, ErrNil)
        ELSE LET r == readRune(peeked)
             IN  IF r.err # ErrNil THEN returnError(r.t, r.err)
                 ELSE collectPlainScalarThroughHash(r.t, Append(scalar, r.ch))

\* mutant: nothing ends the scalar but the end of input
RECURSIVE collectPlainScalarThroughNewline(_, _)
collectPlainScalarThroughNewline(t, scalar) ==
    LET peeked == Peek(t)
        value == Token(TokenPlainScalar, scalar, t.line, t.column - Len(scalar))
    IN  IF t.pos >= Len(t.data)
        THEN IF t.fault THEN returnError(peeked, ErrRead)
                        ELSE Return(peeked, value, ErrNil)
        ELSE LET r == readRune(peeked)
             IN  IF r.err # ErrNil THEN returnError(r.t, r.err)
                 ELSE collectPlainScalarThroughNewline(r.t, Append(scalar, r.ch))

RECURSIVE collectPlainScalar(_, _)
collectPlainScalar(t, scalar) ==
    LET peeked == Peek(t)
        value == Token(TokenPlainScalar, scalar, t.line, t.column - Len(scalar))
    IN  IF t.pos >= Len(t.data)
        THEN IF t.fault THEN returnError(peeked, ErrRead)
                        ELSE Return(peeked, value, ErrNil)
        ELSE IF t.data[t.pos + 1] \in {NL, HASH}
        THEN Return(peeked, value, ErrNil)
        ELSE LET r == readRune(peeked)
             IN  IF r.err # ErrNil THEN returnError(r.t, r.err)
                 ELSE collectPlainScalar(r.t, Append(scalar, r.ch))

\* mutant: the drain loop pops once before it looks at the stack
popAllIndentDoWhile(t) ==
    tokenBufferPush(indentPop(t), Token(TokenDedent, <<>>, t.line, t.column))

\* mutant: the drain loop queues a Dedent without looking at the stack
popAllIndentUnguarded(t) ==
    tokenBufferPush(t, Token(TokenDedent, <<>>, t.line, t.column))

\* the drain loop of pushPerStateEOF
RECURSIVE popAllIndent(_)
popAllIndent(t) ==
    IF Len(t.indentationLevelStack) > 1
    THEN popAllIndent(tokenBufferPush(indentPop(t),
                          Token(TokenDedent, <<>>, t.line, t.column)))
    ELSE t

\* mutant: end of input resolves no partial marker
perStateNothing(t) == t

\* the switch of pushPerStateEOF
perState(t) ==
    CASE t.status = statusOneDash ->
            tokenBufferPush(t, Token(TokenDash, <<DASH>>, t.line, t.column - 1))
      [] t.status = statusTwoDashes ->
            tokenBufferPush(t, Token(TokenPlainScalar, <<DASH, DASH>>, t.line, t.column - 2))
      [] t.status = statusThreeDashes ->
            tokenBufferPush(t, Token(TokenDocStart, <<DASH, DASH, DASH>>, t.line, t.column - 3))
      [] t.status = statusOneDot ->
            tokenBufferPush(t, Token(TokenPlainScalar, <<DOT>>, t.line, t.column - 1))
      [] t.status = statusTwoDots ->
            tokenBufferPush(t, Token(TokenPlainScalar, <<DOT, DOT>>, t.line, t.column - 2))
      [] t.status = statusThreeDots ->
            tokenBufferPush(t, Token(TokenDocEnd, <<DOT, DOT, DOT>>, t.line, t.column - 3))
      [] OTHER -> t

pushPerStateEOF(t) ==
    LET drained == popAllIndent(perState(t))
    IN  tokenBufferPush(drained, Token(TokenEOF, <<>>, drained.line, drained.column))

\* unread the newline, then return the token the state resolves to
unreadAndReturn(t, token) ==
    LET u == unreadRune(t)
    IN  IF u.err # ErrNil THEN returnError(u.t, u.err)
        ELSE Return(u.t, [token EXCEPT !.Column = u.t.column - Len(token.Value)], ErrNil)

RECURSIVE NextTokenLoop(_)

\* mutant: a tab is skipped as a space is
statusBlankCaseSkipsTab(t, ch) ==
    CASE ch \in {SP, TAB} -> NextTokenLoop(t)
      [] ch = NL -> returnNewLine(t)
      [] ch = DASH /\ t.column = 1 -> NextTokenLoop([t EXCEPT !.status = statusOneDash])
      [] ch = DOT /\ t.column = 1 -> NextTokenLoop([t EXCEPT !.status = statusOneDot])
      [] OTHER -> collectPlainScalar(t, <<ch>>)

\* mutant: '-' and '.' start a marker at any column
statusBlankCaseAnyColumn(t, ch) ==
    CASE ch = SP -> NextTokenLoop(t)
      [] ch = NL -> returnNewLine(t)
      [] ch = DASH -> NextTokenLoop([t EXCEPT !.status = statusOneDash])
      [] ch = DOT -> NextTokenLoop([t EXCEPT !.status = statusOneDot])
      [] OTHER -> collectPlainScalar(t, <<ch>>)

\* mutant: the newline leaves the scanner in the state that follows a dash
statusBlankCaseNewLineAfterDash(t, ch) ==
    CASE ch = SP -> NextTokenLoop(t)
      [] ch = NL -> returnNewLine([t EXCEPT !.status = statusAfterDash])
      [] ch = DASH /\ t.column = 1 -> NextTokenLoop([t EXCEPT !.status = statusOneDash])
      [] ch = DOT /\ t.column = 1 -> NextTokenLoop([t EXCEPT !.status = statusOneDot])
      [] OTHER -> collectPlainScalar(t, <<ch>>)

statusBlankCase(t, ch) ==
    CASE ch = SP -> NextTokenLoop(t)
      [] ch = NL -> returnNewLine(t)
      [] ch = DASH /\ t.column = 1 -> NextTokenLoop([t EXCEPT !.status = statusOneDash])
      [] ch = DOT /\ t.column = 1 -> NextTokenLoop([t EXCEPT !.status = statusOneDot])
      [] OTHER -> collectPlainScalar(t, <<ch>>)

statusOneDotCase(t, ch) ==
    CASE ch = DOT -> NextTokenLoop([t EXCEPT !.status = statusTwoDots])
      [] ch = NL ->
            unreadAndReturn([t EXCEPT !.status = statusBlank],
                            Token(TokenPlainScalar, <<DOT>>, t.line, 0))
      [] OTHER -> collectPlainScalar([t EXCEPT !.status = statusScalar], <<DOT, ch>>)

statusTwoDotsCase(t, ch) ==
    CASE ch = DOT -> NextTokenLoop([t EXCEPT !.status = statusThreeDots])
      [] ch = NL ->
            unreadAndReturn([t EXCEPT !.status = statusBlank],
                            Token(TokenPlainScalar, <<DOT, DOT>>, t.line, 0))
      [] OTHER -> collectPlainScalar([t EXCEPT !.status = statusScalar], <<DOT, DOT, ch>>)

statusThreeDotsCase(t, ch) ==
    CASE ch = SP -> returnDocEnd([t EXCEPT !.status = statusScalar])
      [] ch = NL ->
            LET u == unreadRune([t EXCEPT !.status = statusBlank])
            IN  IF u.err # ErrNil THEN returnError(u.t, u.err) ELSE returnDocEnd(u.t)
      [] OTHER -> collectPlainScalar([t EXCEPT !.status = statusScalar], <<DOT, DOT, DOT, ch>>)

statusOneDashCase(t, ch) ==
    CASE ch = SP -> returnDash([t EXCEPT !.status = statusScalar])
      [] ch = TAB -> unreadAndReturnDash([t EXCEPT !.status = statusAfterDash])
      [] ch = NL -> unreadAndReturnDash([t EXCEPT !.status = statusBlank])
      [] ch = DASH -> NextTokenLoop([t EXCEPT !.status = statusTwoDashes])
      [] OTHER -> collectPlainScalar([t EXCEPT !.status = statusBlank], <<DASH, ch>>)

statusTwoDashesCase(t, ch) ==
    CASE ch = SP ->
            Return([t EXCEPT !.status = statusBlank],
                   Token(TokenPlainScalar, <<DASH, DASH>>, t.line, t.column - 2), ErrNil)
      [] ch = NL ->
            unreadAndReturn([t EXCEPT !.status = statusBlank],
                            Token(TokenPlainScalar, <<DASH, DASH>>, t.line, 0))
      [] ch = DASH -> NextTokenLoop([t EXCEPT !.status = statusThreeDashes])
      [] OTHER -> collectPlainScalar([t EXCEPT !.status = statusBlank], <<DASH, DASH, ch>>)

statusThreeDashesCase(t, ch) ==
    CASE ch = SP -> returnDocStart([t EXCEPT !.status = statusScalar])
      [] ch = NL ->
            LET u == unreadRune([t EXCEPT !.status = statusBlank])
            IN  IF u.err # ErrNil THEN returnError(u.t, u.err) ELSE returnDocStart(u.t)
      [] OTHER -> collectPlainScalar([t EXCEPT !.status = statusBlank], <<DASH, DASH, DASH, ch>>)

\* mutant: tabs are skipped with the spaces
RECURSIVE skipBlanksAndTabs(_, _)
skipBlanksAndTabs(t, ch) ==
    IF ch = NL THEN returnNewLine(t)
    ELSE IF ch \notin {SP, TAB} THEN collectPlainScalar(t, <<ch>>)
    ELSE LET r == readRune(t)
         IN  IF r.err = ErrEOF THEN returnEOF(r.t)
             ELSE IF r.err # ErrNil THEN returnError(r.t, r.err)
             ELSE skipBlanksAndTabs(r.t, r.ch)

\* the "skip blanks" loop of statusAfterDash
RECURSIVE skipBlanks(_, _)
skipBlanks(t, ch) ==
    IF ch = NL THEN returnNewLine(t)
    ELSE IF ch # SP THEN collectPlainScalar(t, <<ch>>)
    ELSE LET r == readRune(t)
         IN  IF r.err = ErrEOF THEN returnEOF(r.t)
             ELSE IF r.err # ErrNil THEN returnError(r.t, r.err)
             ELSE skipBlanks(r.t, r.ch)

statusAfterDashCase(t, ch) ==
    skipBlanks([t EXCEPT !.status = statusBlank], ch)

\* mutant: blanks after the marker are skipped, not collected
statusScalarCaseSkipBlanks(t, ch) ==
    LET b == [t EXCEPT !.status = statusBlank]
    IN  IF ch = SP THEN NextTokenLoop(t)
        ELSE IF ch = NL
        THEN LET u == unreadRune(b)
             IN  IF u.err # ErrNil THEN returnError(u.t, u.err)
                 ELSE collectPlainScalar(u.t, <<>>)
        ELSE collectPlainScalar(b, <<ch>>)

\* mutant: the newline after a marker leaves the state that follows a dash
statusScalarCaseToAfterDash(t, ch) ==
    LET b == [t EXCEPT !.status = statusAfterDash]
    IN  IF ch = NL
        THEN LET u == unreadRune(b)
             IN  IF u.err # ErrNil THEN returnError(u.t, u.err)
                 ELSE collectPlainScalar(u.t, <<>>)
        ELSE collectPlainScalar([t EXCEPT !.status = statusBlank], <<ch>>)

statusScalarCase(t, ch) ==
    LET b == [t EXCEPT !.status = statusBlank]
    IN  IF ch = NL
        THEN LET u == unreadRune(b)
             IN  IF u.err # ErrNil THEN returnError(u.t, u.err)
                 ELSE collectPlainScalar(u.t, <<>>)
        ELSE collectPlainScalar(b, <<ch>>)

\* One pass of the NEXT_RUNE loop; "continue" is the recursive call.
NextTokenLoop(t) ==
    IF Len(t.tokenBuffer) > 0
    THEN LET s == tokenBufferShift(t)
         IN  Return(s.t, s.tk, IF s.tk.Type = TokenEOF THEN ErrEOF ELSE ErrNil)
    ELSE LET r == readRune(t)
         IN  IF r.err = ErrEOF THEN NextTokenLoop(pushPerStateEOF(r.t))
             ELSE IF r.err # ErrNil THEN returnError(r.t, r.err)
             ELSE CASE r.t.status = statusBlank -> statusBlankCase(r.t, r.ch)
                    [] r.t.status = statusOneDot -> statusOneDotCase(r.t, r.ch)
                    [] r.t.status = statusTwoDots -> statusTwoDotsCase(r.t, r.ch)
                    [] r.t.status = statusThreeDots -> statusThreeDotsCase(r.t, r.ch)
                    [] r.t.status = statusOneDash -> statusOneDashCase(r.t, r.ch)
                    [] r.t.status = statusTwoDashes -> statusTwoDashesCase(r.t, r.ch)
                    [] r.t.status = statusThreeDashes -> statusThreeDashesCase(r.t, r.ch)
                    [] r.t.status = statusAfterDash -> statusAfterDashCase(r.t, r.ch)
                    [] r.t.status = statusScalar -> statusScalarCase(r.t, r.ch)
                    [] OTHER -> returnError(r.t, ErrStatus)

\* ------------------------------------------------- the caller's read loop
\* The loop of main and of the tests: call NextToken until it returns an
\* error; the result is every (token, error) returned, the last one included.
RECURSIVE Drain(_, _)
Drain(t, n) ==
    LET r == NextTokenLoop(t)
    IN  IF r.err # ErrNil \/ n = 0 THEN <<[tk |-> r.tk, err |-> r.err]>>
        ELSE <<[tk |-> r.tk, err |-> r.err]>> \o Drain(r.t, n - 1)

Tokenize(input) == Drain(NewTokenizer(input, FALSE, FALSE), 2 * Len(input) + 2)

\* n calls of NextToken on t: the tokenizer afterwards and what was returned
RECURSIVE RunCalls(_, _)
RunCalls(t, n) ==
    IF n = 0 THEN [t |-> t, h |-> <<>>]
    ELSE LET before == RunCalls(t, n - 1)
             r == NextTokenLoop(before.t)
         IN  [t |-> r.t, h |-> Append(before.h, [tk |-> r.tk, err |-> r.err])]

Kinds(h) == [i \in 1..Len(h) |-> h[i].tk.Type]
KindValues(h) == [i \in 1..Len(h) |-> <<h[i].tk.Type, h[i].tk.Value>>]


\* ------------------------------------------------------------ the machine
InitTokenizer(inputs, faults, debugs) ==
    /\ data \in inputs
    /\ fault \in faults
    /\ pos = 0
    /\ lastRune = FALSE
    /\ debug \in debugs
    /\ printed = 0
    /\ panic = NoPanic
    /\ line = 1
    /\ column = 0
    /\ status = statusBlank
    /\ indentationLevelStack = <<0>>
    /\ tokenBuffer = <<>>
    /\ tk = NoToken
    /\ err = ErrNil
    /\ history = <<>>

\* a Tokenizer on one of the inputs, and no token compared yet
InitWith(inputs, faults, debugs) ==
    /\ InitTokenizer(inputs, faults, debugs)
    /\ t1 = NoToken
    /\ t2 = NoToken
    /\ equal = <<>>

\* main creates the Tokenizer with debug off
Init == InitWith(SeqsUpTo(Alphabet, MaxLen), BOOLEAN, {FALSE})

\* number of calls so far that returned an error (io.EOF included)
Terminals == Cardinality({i \in 1..Len(history) : history[i].err # ErrNil})

\* One call of NextToken by the caller.  A call that panics returns nothing
\* and ends the program.
NextToken ==
    /\ Terminals < MaxTerminal
    /\ panic = NoPanic
    /\ \E r \in {NextTokenLoop(Self)} :
       LET returned == r.t.panic = NoPanic
       IN  /\ pos' = r.t.pos
           /\ lastRune' = r.t.lastRune
           /\ printed' = r.t.printed
           /\ panic' = r.t.panic
           /\ line' = r.t.line
           /\ column' = r.t.column
           /\ status' = r.t.status
           /\ indentationLevelStack' = r.t.indentationLevelStack
           /\ tokenBuffer' = r.t.tokenBuffer
           /\ tk' = IF returned THEN r.tk ELSE tk
           /\ err' = IF returned THEN r.err ELSE err
           /\ history' = IF returned THEN Append(history, [tk |-> r.tk, err |-> r.err])
                                     ELSE history
    /\ UNCHANGED <<data, fault, debug, t1, t2, equal>>

Next == NextToken

Spec == Init /\ [][Next]_vars

\* Inputs of main's loop on a reader without failures; the loop calls
\* NextToken again for as long as it runs.
InitFair == InitWith(SeqsUpTo(Alphabet, MaxFair), {FALSE}, {FALSE})

SpecFair == InitFair /\ [][Next]_vars /\ WF_vars(NextToken)

\* the tests create it with debug on or off (environment variable DEBUG)
InitDebug == InitWith(SeqsUpTo(Alphabet, MaxLen), BOOLEAN, BOOLEAN)

SpecDebug == InitDebug /\ [][Next]_vars

\* Inputs made of marker lines: M, one space, a text, a newline.
LineChars == {SP, TAB, DASH, DOT, "a"}
MarkerTexts == {<<DASH>>, <<DASH, DASH, DASH>>, <<DOT, DOT, DOT>>}
MarkerLines(texts) == {m \o <<SP>> \o s \o <<NL>> : m \in MarkerTexts, s \in texts}

RECURSIVE ConcatUpTo(_, _)
ConcatUpTo(L, n) ==
    IF n = 0 THEN {<<>>}
    ELSE LET shorter == ConcatUpTo(L, n - 1)
         IN  shorter \cup {x \o l : x \in shorter, l \in L}

LineInputs ==
    {first \o rest :
        first \in MarkerLines(SeqsUpTo(LineChars, MaxScalar)),
        rest \in ConcatUpTo(MarkerLines({<<>>, <<"a">>}), MaxLines - 1)}

InitLines == InitWith(LineInputs, {FALSE}, {FALSE})

SpecLines == InitLines /\ [][Next]_vars

\* Inputs made of indented lines: some spaces, one character, maybe a newline.
Spaces(n) == [i \in 1..n |-> SP]
IndentedLines ==
    {Spaces(n) \o <<c>> \o e : n \in 0..MaxIndent, c \in {"a", DASH}, e \in {<<>>, <<NL>>}}

InitIndent == InitWith(ConcatUpTo(IndentedLines, MaxLines), {FALSE}, {FALSE})

SpecIndent == InitIndent /\ [][Next]_vars

\* The comparison the tests make: TokenEqual on a returned and an expected
\* token.  The tokens are drawn over every type, with values, lines and
\* columns that agree or differ.
TokenTypes ==
    {TokenEOF, TokenError, TokenDash, TokenPlainScalar, TokenNewLine,
     TokenDocStart, TokenDocEnd, TokenIndent, TokenDedent}
TokenValues == {<<>>, <<"a">>, <<DASH>>}
TokenLines == 1..MaxLines
TokenColumns == {0, 1}
EqualTokens ==
    {Token(ty, v, l, c) : ty \in TokenTypes, v \in TokenValues,
                          l \in TokenLines, c \in TokenColumns}

InitEqual ==
    /\ InitTokenizer({<<>>}, {FALSE}, {FALSE})
    /\ t1 \in EqualTokens
    /\ t2 \in EqualTokens
    /\ equal = <<>>

Compare ==
    /\ equal = <<>>
    /\ equal' = <<TokenEqual(t1, t2)>>
    /\ UNCHANGED <<data, fault, pos, lastRune, debug, printed, panic, line, column,
                   status, indentationLevelStack, tokenBuffer, tk, err, history, t1, t2>>

NextEqual == Compare

SpecEqual == InitEqual /\ [][NextEqual]_vars

\* ------------------------------------------------------ reading the input
\* The claims below speak of the input text itself: of lines, columns and
\* leading spaces as they are in data, not as the tokenizer counts them.

\* the 1-based index in data where the line holding index i starts
RECURSIVE LineStartOf(_, _)
LineStartOf(d, i) ==
    IF i <= 1 THEN 1
    ELSE IF d[i - 1] = NL THEN i
    ELSE LineStartOf(d, i - 1)

ColumnOf(d, i) == i - LineStartOf(d, i) + 1

\* the index just past the line that starts at index i (its newline, or Len + 1)
RECURSIVE LineEndOf(_, _)
LineEndOf(d, i) ==
    IF i > Len(d) \/ d[i] = NL THEN i ELSE LineEndOf(d, i + 1)

\* number of characters c at the front of d[i..]
RECURSIVE RunOf(_, _, _)
RunOf(d, i, c) ==
    IF i > Len(d) \/ d[i] # c THEN 0 ELSE 1 + RunOf(d, i + 1, c)

CountIn(sq, c) == Cardinality({i \in 1..Len(sq) : sq[i] = c})

CountKind(h, kind) == Cardinality({i \in 1..Len(h) : h[i].tk.Type = kind})

RECURSIVE CountInScalars(_, _)
CountInScalars(h, c) ==
    IF h = <<>> THEN 0
    ELSE (IF Head(h).tk.Type = TokenPlainScalar THEN CountIn(Head(h).tk.Value, c) ELSE 0)
         + CountInScalars(Tail(h), c)

\* the last call returned io.EOF, and no call before it returned an error
FirstEOF == err = ErrEOF /\ tk.Type = TokenEOF /\ Terminals = 1

PartialMarkerStates ==
    {statusOneDash, statusTwoDashes, statusThreeDashes,
     statusOneDot, statusTwoDots, statusThreeDots}

MarkerKinds == {TokenDash, TokenDocStart, TokenDocEnd}

MarkerText(kind) ==
    CASE kind = TokenDash -> <<DASH>>
      [] kind = TokenDocStart -> <<DASH, DASH, DASH>>
      [] kind = TokenDocEnd -> <<DOT, DOT, DOT>>

\* tokens of history that carry line number n, NewLine and EndOfInput left out
RECURSIVE TokensOfLine(_, _)
TokensOfLine(h, n) ==
    IF h = <<>> THEN <<>>
    ELSE (IF Head(h).tk.Line = n /\ Head(h).tk.Type \notin {TokenNewLine, TokenEOF}
          THEN <<Head(h)>> ELSE <<>>) \o TokensOfLine(Tail(h), n)

\* ------------------------------------------------------------------ C1
\* C1: once a NextToken call has returned the EndOfInput token with io.EOF,
\* every later call returns the EndOfInput token with io.EOF again.
C1_EOFIsSticky ==
    \A i \in 1..Len(history) : \A j \in i..Len(history) :
        history[i].err = ErrEOF =>
            history[j].err = ErrEOF /\ history[j].tk.Type = TokenEOF

\* ------------------------------------------------------------------ C2
ResolvedAtEOF(st) ==
    CASE st = statusOneDash -> <<TokenDash, <<DASH>>>>
      [] st = statusTwoDashes -> <<TokenPlainScalar, <<DASH, DASH>>>>
      [] st = statusThreeDashes -> <<TokenDocStart, <<DASH, DASH, DASH>>>>
      [] st = statusOneDot -> <<TokenPlainScalar, <<DOT>>>>
      [] st = statusTwoDots -> <<TokenPlainScalar, <<DOT, DOT>>>>
      [] st = statusThreeDots -> <<TokenDocEnd, <<DOT, DOT, DOT>>>>

\* h with its last NewLine token removed
RECURSIVE DropLastNewLine(_)
DropLastNewLine(h) ==
    IF h = <<>> THEN <<>>
    ELSE IF h[Len(h)][1] = TokenNewLine THEN SubSeq(h, 1, Len(h) - 1)
    ELSE Append(DropLastNewLine(SubSeq(h, 1, Len(h) - 1)), h[Len(h)])

\* index of the last token of h that is neither Dedent nor EndOfInput (0: none)
RECURSIVE LastContent(_, _)
LastContent(h, i) ==
    IF i = 0 THEN 0
    ELSE IF h[i].tk.Type \notin {TokenDedent, TokenEOF} THEN i
    ELSE LastContent(h, i - 1)

\* C2: when the input ends in a partial-marker state, the tokens returned up
\* to EndOfInput (kinds and values) are those of the same input followed by a
\* newline, less the final NewLine; the resolved token is the one the state
\* stands for, then come one Dedent per open indentation level, then EndOfInput.
C2_EOFResolvesLikeNewline ==
    (FirstEOF /\ ~fault /\ status \in PartialMarkerStates) =>
        LET k == LastContent(history, Len(history))
            before == SubSeq(history, 1, k)
        IN  /\ KindValues(history) = DropLastNewLine(KindValues(Tokenize(Append(data, NL))))
            /\ k >= 1
            /\ <<history[k].tk.Type, history[k].tk.Value>> = ResolvedAtEOF(status)
            /\ \A i \in (k + 1)..(Len(history) - 1) : history[i].tk.Type = TokenDedent
            /\ Len(history) - 1 - k
                 = CountKind(before, TokenIndent) - CountKind(before, TokenDedent)

C2_Witness ==
    FirstEOF /\ ~fault /\ status = statusTwoDashes /\ Len(history) >= 3

\* ------------------------------------------------------------------ C3
\* the index in data of the first character of the marker token just returned
MarkerStart(kind) ==
    IF pos >= 1 /\ data[pos] = SP THEN pos - Len(MarkerText(kind))
    ELSE pos - Len(MarkerText(kind)) + 1

FalseMarkerLine(d, c) ==
    LET k == RunOf(d, 1, c)
    IN  /\ k >= 1 /\ k < Len(d)
        /\ d[k + 1] \notin {SP, TAB, NL}
        /\ \A i \in 1..(LineEndOf(d, 1) - 1) : d[i] # HASH

\* C4: such a line yields no marker token and exactly one PlainScalar, whose
\* value is the whole line up to its newline or the end of input.
C4_FalseMarkerIsOneScalar ==
    (FirstEOF /\ ~fault /\ (FalseMarkerLine(data, DASH) \/ FalseMarkerLine(data, DOT))) =>
        LET got == TokensOfLine(history, 1)
        IN  /\ Len(got) = 1
            /\ got[1].tk.Type = TokenPlainScalar
            /\ got[1].tk.Value = SubSeq(data, 1, LineEndOf(data, 1) - 1)

\* ------------------------------------------------------------------ C5
\* what C5 expects of an input made of marker lines
RECURSIVE ExpectedOfLines(_)
ExpectedOfLines(d) ==
    IF d = <<>> THEN <<<<TokenEOF, <<>>>>>>
    ELSE LET e == LineEndOf(d, 1)
             m == RunOf(d, 1, d[1])
             kind == CASE d[1] = DASH /\ m = 1 -> TokenDash
                       [] d[1] = DASH /\ m = 3 -> TokenDocStart
                       [] d[1] = DOT /\ m = 3 -> TokenDocEnd
         IN  << <<kind, SubSeq(d, 1, m)>>,
                <<TokenPlainScalar, SubSeq(d, m + 2, e - 1)>>,
                <<TokenNewLine, <<"\\", "n">>>> >>
             \o ExpectedOfLines(SubSeq(d, e + 1, Len(d)))

\* C5: for lines "M s\n" with M one of '-', '---', '...', NextToken yields per
\* line the marker token, PlainScalar(s) with s verbatim, NewLine, and
\* EndOfInput after the last line.
C5_MarkerLines ==
    FirstEOF => KindValues(history) = ExpectedOfLines(data)

C5_Witness ==
    /\ FirstEOF
    /\ Len(history) = 7
    /\ history[2].tk.Value = <<SP, "a", SP>>
    /\ history[5].tk.Value = <<>>

\* ------------------------------------------------------------------ C6
\* number of leading spaces of the line that starts at index i
LeadingSpaces(d, i) == RunOf(d, i, SP)

\* the line that starts at index i has a character other than space, newline
HasContent(d, i) ==
    LET j == i + LeadingSpaces(d, i) IN j <= Len(d) /\ d[j] # NL

\* C6: a first line with more leading spaces than the base of the indentation
\* stack gets an Indent token before any other token; " -" yields Indent,
\* Dash, Dedent, EndOfInput.
C6_IndentFirst ==
    /\ (history # <<>> /\ HasContent(data, 1) /\ LeadingSpaces(data, 1) > 0) =>
          history[1].tk.Type = TokenIndent
    /\ (FirstEOF /\ data = <<SP, DASH>>) =>
          Kinds(history) = <<TokenIndent, TokenDash, TokenDedent, TokenEOF>>

\* ------------------------------------------------------------------ C7
\* index where the second line starts (Len + 1: there is none)
SecondLine(d) == LineEndOf(d, 1) + 1

\* C7: after a first line indented by n > 0 spaces, a second line with no
\* leading space pops the level n: one Dedent is returned before any other
\* token of the second line.
C7_DedentFirst ==
    LET s == SecondLine(data)
    IN  (/\ FirstEOF
         /\ HasContent(data, 1) /\ LeadingSpaces(data, 1) > 0
         /\ s <= Len(data) /\ HasContent(data, s) /\ LeadingSpaces(data, s) = 0) =>
            LET got == TokensOfLine(history, 2)
            IN  /\ Len(got) >= 2
                /\ got[1].tk.Type = TokenDedent
                /\ got[2].tk.Type # TokenDedent

\* ------------------------------------------------------------------ C8
\* C8: after a first line indented by n spaces, a second line indented by m
\* spaces with 0 < m < n matches no level of the stack: the call that meets
\* it returns an Error token with an error that is neither nil nor io.EOF,
\* and nothing else is returned for that line.
C8_MalformedDedent ==
    LET s == SecondLine(data)
    IN  (/\ Terminals >= 1
         /\ HasContent(data, 1)
         /\ s <= Len(data) /\ HasContent(data, s)
         /\ LeadingSpaces(data, s) > 0
         /\ LeadingSpaces(data, s) < LeadingSpaces(data, 1)) =>
            \E i \in 1..Len(history) :
                /\ history[i].tk.Type = TokenError
                /\ history[i].err \notin {ErrNil, ErrEOF}
                /\ history[i].tk.Line = 2
                /\ \A j \in 1..(i - 1) :
                      history[j].tk.Line = 2 => history[j].tk.Type = TokenDedent

\* ------------------------------------------------------------------ C9
\* C9: when EndOfInput is first returned as many Dedent as Indent tokens
\* have been returned, and at no point more Dedent than Indent tokens.
C9_IndentBalance ==
    /\ CountKind(history, TokenDedent) <= CountKind(history, TokenIndent)
    /\ FirstEOF => CountKind(history, TokenIndent) = CountKind(history, TokenDedent)

C9_Witness ==
    FirstEOF /\ ~fault /\ Len(history) >= 4 /\ status \in PartialMarkerStates

\* ------------------------------------------------------------------ C10
\* the index in data of the first character of the PlainScalar just returned
ScalarStart(value) ==
    IF pos >= Len(value) /\ SubSeq(data, pos - Len(value) + 1, pos) = value
    THEN pos - Len(value) + 1
    ELSE pos - Len(value)

\* C10: the Column of a PlainScalar token is the 1-based column, in its
\* line of the input, of the first character of its value.
C10_ScalarColumn ==
    (tk.Type = TokenPlainScalar /\ tk.Value # <<>>) =>
        tk.Column = ColumnOf(data, ScalarStart(tk.Value))

\* ------------------------------------------------------------------ C11
\* C11: every Dash, DocStart and DocEnd token carries Column 1.
C11_MarkerColumn ==
    tk.Type \in MarkerKinds => tk.Column = 1

\* ------------------------------------------------------------------ C12
\* C12: the Line of every returned token is 1 plus the number of NewLine
\* tokens returned before it (so lines start at 1 and never decrease), and
\* the column counter is 0 right after a NewLine token is returned.
C12_LineCount ==
    /\ \A i \in 1..Len(history) :
          history[i].tk.Line = 1 + CountKind(SubSeq(history, 1, i - 1), TokenNewLine)
    /\ \A i \in 1..(Len(history) - 1) : history[i].tk.Line <= history[i + 1].tk.Line
    /\ line >= 1
    /\ tk.Type = TokenNewLine => column = 0

C12_Witness ==
    /\ Len(history) = 4
    /\ tk.Type = TokenNewLine /\ tk.Line = 2 /\ column = 0
    /\ history[1].tk.Type = TokenPlainScalar

\* ------------------------------------------------------------------ C13
\* C13: an input of N newlines and nothing else yields N NewLine tokens, the
\* i-th at line i column 1, then EndOfInput; the empty input yields
\* EndOfInput on the first call.
C13_OnlyNewlines ==
    (FirstEOF /\ ~fault /\ \A i \in 1..Len(data) : data[i] = NL) =>
        /\ Len(history) = Len(data) + 1
        /\ \A i \in 1..Len(data) :
              /\ history[i].tk.Type = TokenNewLine
              /\ history[i].tk.Line = i
              /\ history[i].tk.Column = 1
              /\ history[i].err = ErrNil

C13_Witness ==
    FirstEOF /\ ~fault /\ data = <<NL, NL, NL>> /\ Len(history) = 4

\* ------------------------------------------------------------------ C14
\* C14: with a reader that fails after its data, the call that meets the
\* failure (reading the next character, or peeking while it collects a
\* scalar) returns an Error token with the read error; no call returns
\* EndOfInput, and no scalar whose collection ran into the failure is returned.
C14_ReadFaultSurfaces ==
    /\ [](fault =>
            \A i \in 1..Len(history) :
                /\ history[i].tk.Type # TokenEOF /\ history[i].err # ErrEOF
                /\ (history[i].err # ErrNil \/ history[i].tk.Type = TokenError) =>
                        (history[i].tk.Type = TokenError /\ history[i].err = ErrRead))
    /\ [][(fault /\ pos = Len(data)) =>
             (tk'.Type = TokenError /\ err' = ErrRead)]_vars
    /\ [][(fault /\ pos < Len(data) /\ pos' = Len(data) /\ data[Len(data)] \notin {SP, NL}) =>
             (tk'.Type = TokenError /\ err' = ErrRead)]_vars

C14_Witness ==
    /\ fault /\ tk.Type = TokenError /\ err = ErrRead
    /\ Len(history) = 3 /\ history[1].tk.Type = TokenPlainScalar
    /\ data[Len(data)] = "a"

\* ------------------------------------------------------------------ C15
\* C15: a Tokenizer created on the same input with the other debug setting
\* returns, call after call, the same (token, error) results and ends in the
\* same line, column, status, indentation stack and token buffer.
C15_DebugChangesNothing ==
    LET other == RunCalls(NewTokenizer(data, fault, ~debug), Len(history))
    IN  /\ other.h = history
        /\ other.t.line = line
        /\ other.t.column = column
        /\ other.t.status = status
        /\ other.t.indentationLevelStack = indentationLevelStack
        /\ other.t.tokenBuffer = tokenBuffer
        /\ other.t.pos = pos

C15_Witness ==
    debug /\ printed >= 4 /\ FirstEOF /\ Len(history) >= 3

\* ------------------------------------------------------------------ C16
\* index of the first character after the reader position that is no space
NextNonSpace == pos + RunOf(data, pos + 1, SP) + 1

\* the call about to be made starts collecting a scalar in the Blank state:
\* the next character that is no space is no newline and starts no marker
StartsInBlank ==
    LET s == NextNonSpace
    IN  /\ status = statusBlank /\ tokenBuffer = <<>>
        /\ s <= Len(data) /\ data[s] # NL
        /\ ~(data[s] \in {DASH, DOT} /\ ColumnOf(data, s) = 1)

\* C16 as claimed: a PlainScalar whose collection starts in the Blank state
\* has neither leading nor trailing spaces or tabs.
C16_BlankScalarTrimmed ==
    [][(StartsInBlank /\ tk'.Type = TokenPlainScalar) =>
          /\ tk'.Value # <<>>
          /\ tk'.Value[1] \notin {SP, TAB}
          /\ tk'.Value[Len(tk'.Value)] \notin {SP, TAB}]_vars

\* C16 as amended: such a PlainScalar is the raw run from the first character
\* that is no space up to the next newline, '#' or end of input; it does not
\* begin with a space, and keeps a leading tab and trailing spaces and tabs.
C16_BlankScalarIsRawRun ==
    [][StartsInBlank =>
          /\ tk'.Type = TokenPlainScalar \/ (fault /\ tk'.Type = TokenError)
          /\ tk'.Type = TokenPlainScalar =>
                /\ tk'.Value = SubSeq(data, NextNonSpace, pos')
                /\ pos' >= NextNonSpace
                /\ tk'.Value[1] # SP
                /\ pos' = Len(data) \/ data[pos' + 1] \in {NL, HASH}]_vars

C16_Witness ==
    tk.Type = TokenPlainScalar /\ tk.Value = <<TAB, "a", SP>> /\ data[1] = SP

\* ------------------------------------------------------------------ C17
\* number of spaces and tabs at the front of d[i..]
RECURSIVE BlankRun(_, _)
BlankRun(d, i) ==
    IF i > Len(d) \/ d[i] \notin {SP, TAB} THEN 0 ELSE 1 + BlankRun(d, i + 1)

\* the reader stands right after a dash and the one space that followed it,
\* or right after a dash that a tab follows
AfterDashSeparator ==
    \/ pos >= 2 /\ data[pos] = SP /\ data[pos - 1] = DASH
    \/ pos >= 1 /\ pos < Len(data) /\ data[pos] = DASH /\ data[pos + 1] = TAB

\* C17 as claimed: the PlainScalar returned right after a Dash begins at the
\* first character after the dash that is neither space nor tab, and runs
\* verbatim to where collection stops.
C17_BlankRunStripped ==
    [][(tk.Type = TokenDash /\ tk'.Type = TokenPlainScalar) =>
          LET start == IF data[pos] = SP THEN pos ELSE pos + 1
          IN  tk'.Value = SubSeq(data, start + BlankRun(data, start), pos')]_vars

\* C17 as amended: only the single space after the dash is stripped, and
\* nothing when a tab follows the dash; the PlainScalar begins at the very
\* next character and runs verbatim to the newline, '#' or end of input.
C17_OneSpaceStripped ==
    [][(tk.Type = TokenDash /\ tk'.Type = TokenPlainScalar) =>
          /\ AfterDashSeparator
          /\ tk'.Value = SubSeq(data, pos + 1, pos')
          /\ pos' = Len(data) \/ data[pos' + 1] \in {NL, HASH}]_vars

C17_Witness ==
    /\ Len(history) = 2 /\ history[1].tk.Type = TokenDash
    /\ tk.Type = TokenPlainScalar /\ tk.Value = <<SP, "a">>

\* ------------------------------------------------------------------ C18
LineNumberOf(d, i) == 1 + CountIn(SubSeq(d, 1, i - 1), NL)

\* first index from i on that holds a newline or '#' (Len + 1: none)
RECURSIVE ScalarEndOf(_, _)
ScalarEndOf(d, i) ==
    IF i > Len(d) \/ d[i] \in {NL, HASH} THEN i ELSE ScalarEndOf(d, i + 1)

\* C18: for a dash at column 1 followed at once by a tab, Dash is returned
\* and then a PlainScalar that starts with the tab and keeps every character
\* after it, tabs and spaces included, up to where the scalar ends.
C18_TabAfterDash ==
    (FirstEOF /\ ~fault) =>
        \A i \in 1..(Len(data) - 1) :
            (data[i] = DASH /\ ColumnOf(data, i) = 1 /\ data[i + 1] = TAB) =>
                \E k \in 1..(Len(history) - 1) :
                    /\ history[k].tk.Type = TokenDash
                    /\ history[k].tk.Line = LineNumberOf(data, i)
                    /\ history[k + 1].tk.Type = TokenPlainScalar
                    /\ history[k + 1].tk.Line = LineNumberOf(data, i)
                    /\ history[k + 1].tk.Value
                         = SubSeq(data, i + 1, ScalarEndOf(data, i + 2) - 1)

C18_Witness ==
    /\ FirstEOF /\ ~fault /\ data = <<DASH, TAB, TAB, NL>>
    /\ history[2].tk.Value = <<TAB, TAB>>

\* ------------------------------------------------------------------ C19
\* C19 as claimed: in the Blank state a tab is skipped as a space is; it
\* starts no PlainScalar, and no PlainScalar value begins with it.
C19_TabSkippedInBlank ==
    [][(status = statusBlank /\ tokenBuffer = <<>> /\ pos < Len(data)
            /\ data[pos + 1] = TAB) =>
          ~(tk'.Type = TokenPlainScalar /\ tk'.Value # <<>> /\ tk'.Value[1] = TAB)]_vars

\* C19 as amended: in the Blank state a tab is not skipped; it starts a
\* PlainScalar whose value begins with that tab.
C19_TabStartsScalar ==
    [][(status = statusBlank /\ tokenBuffer = <<>> /\ pos < Len(data)
            /\ data[pos + 1] = TAB) =>
          \/ /\ tk'.Type = TokenPlainScalar
             /\ tk'.Value # <<>> /\ tk'.Value[1] = TAB
             /\ tk'.Value = SubSeq(data, pos + 1, pos')
          \/ fault /\ tk'.Type = TokenError]_vars

C19_Witness ==
    /\ Len(history) = 1 /\ tk.Type = TokenPlainScalar
    /\ tk.Value = <<TAB, DOT, DOT, DOT>>

\* ------------------------------------------------------------------ C20
\* C20: no call panics (indentPop on the base entry, tokenBufferShift on an
\* empty buffer) and no call returns the reader's rejection of an unread
\* that does not follow a successful read, calls after EndOfInput included.
C20_NoDefensivePath ==
    /\ panic = NoPanic
    /\ \A i \in 1..Len(history) : history[i].err # ErrInvalidUnreadRune

C20_Witness ==
    /\ Terminals >= 2 /\ ~fault /\ status = statusOneDash
    /\ Len(data) = 3 /\ history[1].tk.Type = TokenDash /\ history[2].tk.Type = TokenNewLine

\* ------------------------------------------------------------------ C21
\* kinds and values of the tokens end of input queues in state st, in the
\* order pushPerStateEOF pushes them
QueuedAtEOF(st) ==
    (IF st \in PartialMarkerStates THEN <<ResolvedAtEOF(st)>> ELSE <<>>)
        \o <<<<TokenEOF, <<>>>>>>

KindValuesOf(tokens) == [i \in 1..Len(tokens) |-> <<tokens[i].Type, tokens[i].Value>>]

\* C21: a call that finds the token buffer non-empty returns its first token
\* and removes it, reads nothing and leaves line, column, status and the
\* indentation stack alone; a call that fills the buffer returns the first
\* token pushed and leaves the others queued in the order they were pushed.
C21_BufferIsFifo ==
    /\ [][tokenBuffer # <<>> =>
            /\ tk' = Head(tokenBuffer)
            /\ tokenBuffer' = Tail(tokenBuffer)
            /\ Len(history') = Len(history) + 1
            /\ pos' = pos /\ lastRune' = lastRune /\ printed' = printed
            /\ line' = line /\ column' = column /\ status' = status
            /\ indentationLevelStack' = indentationLevelStack]_vars
    /\ [][(tokenBuffer = <<>> /\ tokenBuffer' # <<>>) =>
            KindValuesOf(<<tk'>> \o tokenBuffer') = QueuedAtEOF(status')]_vars

C21_Witness ==
    /\ data = <<DOT, DOT, DOT>> /\ ~fault
    /\ Len(history) = 2 /\ history[1].tk.Type = TokenDocEnd
    /\ tk.Type = TokenEOF /\ tokenBuffer = <<>> /\ status = statusThreeDots

\* ------------------------------------------------------------------ C22
\* seeds collectPlainScalar is called with
Seeds == {<<>>, <<"a">>, <<TAB>>, <<HASH>>, <<DASH, "a">>, <<DOT, DOT, DOT, SP>>}

\* two dashes from column 1 and one space end at index p of d: the scalar
\* "--" that StatusTwoDashes returns on the space, without collecting
TwoDashesAndSpace(d, p) ==
    /\ p >= 3 /\ d[p] = SP /\ d[p - 1] = DASH /\ d[p - 2] = DASH
    /\ ColumnOf(d, p - 2) = 1

\* C22: collectPlainScalar, called at any reader position the tokenizer
\* reaches and with any seed, returns the seed followed by the input up to
\* the next newline, '#' or end of input and leaves the reader right there;
\* and every PlainScalar a call returns after collecting is the text the call
\* consumed last, with a newline, a '#' or nothing unread after it.
C22_CollectsMaximalRun ==
    /\ [](\A seed \in Seeds :
            LET r == collectPlainScalar(Self, seed)
                e == ScalarEndOf(data, pos + 1)
            IN  IF fault /\ e > Len(data)
                THEN r.tk.Type = TokenError /\ r.err = ErrRead
                ELSE /\ r.tk.Type = TokenPlainScalar /\ r.err = ErrNil
                     /\ r.tk.Value = seed \o SubSeq(data, pos + 1, e - 1)
                     /\ r.t.pos = e - 1
                     /\ r.t.pos = Len(data) \/ data[r.t.pos + 1] \in {NL, HASH})
    /\ [][(tk'.Type = TokenPlainScalar /\ tokenBuffer = <<>>
             /\ ~(tk'.Value = <<DASH, DASH>> /\ TwoDashesAndSpace(data, pos'))) =>
            /\ pos' = Len(data) \/ data[pos' + 1] \in {NL, HASH}
            /\ Len(tk'.Value) <= pos'
            /\ tk'.Value = SubSeq(data, pos' - Len(tk'.Value) + 1, pos')]_vars

C22_Witness ==
    /\ data = <<"a", SP, HASH, "a">> /\ Len(history) = 1
    /\ tk.Type = TokenPlainScalar /\ tk.Value = <<"a", SP>> /\ pos = 2

\* ------------------------------------------------------------------ C23
\* C23: the status is Blank before the first call and right after every call
\* that returns a NewLine token.
C23_BlankAfterNewLine ==
    /\ history = <<>> => status = statusBlank
    /\ (history # <<>> /\ tk.Type = TokenNewLine) => status = statusBlank

\* the newline of a line that went through OneDash and Scalar, then the
\* newline of an empty line
C23_Witness ==
    /\ data = <<DASH, SP, NL, NL>>
    /\ Len(history) = 4 /\ history[1].tk.Type = TokenDash
    /\ history[3].tk.Type = TokenNewLine
    /\ tk.Type = TokenNewLine /\ status = statusBlank

\* ------------------------------------------------------------------ C24
\* number of tokens of the given kind in a sequence of tokens
CountQueued(tokens, kind) == Cardinality({i \in 1..Len(tokens) : tokens[i].Type = kind})

\* C24: the indentation stack is never empty, its bottom entry is 0, its
\* entries increase strictly from bottom to top, and its length minus one is
\* the number of Indent tokens returned minus the number of Dedent tokens
\* returned or queued.
C24_StackInvariant ==
    /\ Len(indentationLevelStack) >= 1
    /\ indentationLevelStack[1] = 0
    /\ \A i \in 1..(Len(indentationLevelStack) - 1) :
          indentationLevelStack[i] < indentationLevelStack[i + 1]
    /\ Len(indentationLevelStack) - 1
          = CountKind(history, TokenIndent)
              - (CountKind(history, TokenDedent) + CountQueued(tokenBuffer, TokenDedent))

\* after the end-of-input drain loop has run and left EndOfInput queued
C24_Witness ==
    /\ data = <<DASH>> /\ ~fault
    /\ Len(history) = 1 /\ tk.Type = TokenDash
    /\ Len(tokenBuffer) = 1 /\ indentationLevelStack = <<0>>

\* ------------------------------------------------------------------ C25
\* some call returns EndOfInput
ReachesEOF == <>(tk.Type = TokenEOF /\ err = ErrEOF)

\* C25 as claimed: on an input without read errors some call returns
\* EndOfInput, and until then every call that returns another token consumes
\* at least one character or shortens the token buffer.
C25_EachCallConsumes ==
    /\ ReachesEOF
    /\ [][(~fault /\ Terminals = 0 /\ tk'.Type # TokenEOF) =>
            (pos' > pos \/ Len(tokenBuffer') < Len(tokenBuffer))]_vars

\* C25 as amended: on an input without read errors some call returns
\* EndOfInput, and until then every call that returns another token consumes
\* at least one character, or shortens the token buffer, or returns the empty
\* PlainScalar in front of a newline and moves from Scalar to Blank, so that
\* the next call consumes the newline.
C25_Terminates ==
    /\ ReachesEOF
    /\ [][(~fault /\ Terminals = 0 /\ tk'.Type # TokenEOF) =>
            \/ pos' > pos
            \/ Len(tokenBuffer') < Len(tokenBuffer)
            \/ /\ status = statusScalar /\ status' = statusBlank
               /\ tk'.Type = TokenPlainScalar /\ tk'.Value = <<>>
               /\ pos' = pos /\ pos < Len(data) /\ data[pos + 1] = NL]_vars

C25_Witness ==
    /\ data = <<DASH, SP, NL>> /\ ~fault /\ FirstEOF
    /\ Len(history) = 4
    /\ history[2].tk.Type = TokenPlainScalar /\ history[2].tk.Value = <<>>

\* ------------------------------------------------------------------ C26
\* C26: of every call, the error is io.EOF exactly when the token is
\* EndOfInput, it is another error exactly when the token is Error, and it is
\* nil with every other token.
C26_ErrorMatchesKind ==
    \A i \in 1..Len(history) :
        /\ history[i].err = ErrEOF <=> history[i].tk.Type = TokenEOF
        /\ history[i].err \notin {ErrNil, ErrEOF} <=> history[i].tk.Type = TokenError
        /\ history[i].tk.Type \in {TokenDash, TokenPlainScalar, TokenNewLine, TokenDocStart,
                                   TokenDocEnd, TokenIndent, TokenDedent}
              => history[i].err = ErrNil

\* a reader that fails in the middle of a scalar, after a Dash and a NewLine
C26_Witness ==
    /\ fault /\ data = <<DASH, NL, "a">>
    /\ Len(history) = 3 /\ history[1].err = ErrNil /\ history[2].err = ErrNil
    /\ tk.Type = TokenError /\ err = ErrRead

\* ------------------------------------------------------------------ C27
\* C27: a PlainScalar with an empty value is returned only right after a
\* Dash, DocStart or DocEnd token of the same line; so a line made of a false
\* marker and a newline yields one PlainScalar and then NewLine.
C27_EmptyScalarOnlyAfterMarker ==
    /\ \A i \in 1..Len(history) :
          (history[i].tk.Type = TokenPlainScalar /\ history[i].tk.Value = <<>>) =>
              /\ i > 1
              /\ history[i - 1].tk.Type \in MarkerKinds
              /\ history[i - 1].tk.Line = history[i].tk.Line
    /\ (FirstEOF /\ ~fault /\ Len(data) >= 2 /\ LineEndOf(data, 1) = Len(data)
          /\ (FalseMarkerLine(data, DASH) \/ FalseMarkerLine(data, DOT))) =>
              Kinds(history) = <<TokenPlainScalar, TokenNewLine, TokenEOF>>

\* ------------------------------------------------------------------ C28
\* C28: no PlainScalar value returned by a call holds a newline character.
C28_NoNewLineInScalar ==
    \A i \in 1..Len(history) :
        history[i].tk.Type = TokenPlainScalar =>
            \A k \in 1..Len(history[i].tk.Value) : history[i].tk.Value[k] # NL

\* a scalar collected from StatusOneDash and one collected from StatusBlank,
\* each stopped by the newline that follows it
C28_Witness ==
    /\ data = <<DASH, "a", NL, "a">> /\ ~fault /\ FirstEOF
    /\ KindValues(history) = << <<TokenPlainScalar, <<DASH, "a">>>>,
                                <<TokenNewLine, <<"\\", "n">>>>,
                                <<TokenPlainScalar, <<"a">>>>,
                                <<TokenEOF, <<>>>> >>

\* ------------------------------------------------------------------ C29
\* C29: TokenEqual is true exactly when the types agree and, for PlainScalar,
\* the values agree; line and column never change the result, nor does the
\* value of a token that is no PlainScalar; the relation is reflexive,
\* symmetric and transitive.
C29_TokenEqualRelation ==
    equal # <<>> =>
        /\ equal[1] = (/\ t1.Type = t2.Type
                       /\ t1.Type = TokenPlainScalar => t1.Value = t2.Value)
        /\ \A l \in TokenLines, c \in TokenColumns :
              /\ TokenEqual([t1 EXCEPT !.Line = l, !.Column = c], t2) = equal[1]
              /\ TokenEqual(t1, [t2 EXCEPT !.Line = l, !.Column = c]) = equal[1]
        /\ \A v \in TokenValues :
              /\ t1.Type # TokenPlainScalar =>
                    TokenEqual([t1 EXCEPT !.Value = v], t2) = equal[1]
              /\ t2.Type # TokenPlainScalar =>
                    TokenEqual(t1, [t2 EXCEPT !.Value = v]) = equal[1]
        /\ TokenEqual(t1, t1)
        /\ TokenEqual(t2, t1) = equal[1]
        /\ \A t3 \in EqualTokens :
              (equal[1] /\ TokenEqual(t2, t3)) => TokenEqual(t1, t3)

\* two Dash tokens found equal though value, line and column all differ
C29_Witness ==
    /\ equal = <<TRUE>>
    /\ t1.Type = TokenDash /\ t2.Type = TokenDash
    /\ t1.Value # t2.Value /\ t1.Line # t2.Line /\ t1.Column # t2.Column

\* ------------------------------------------------------------------ C30
\* C30: at every reader position the tokenizer reaches, a successful readRune
\* adds one to the column, the unreadRune after it takes the one away and the
\* next readRune returns the same character; a second unreadRune in a row is
\* rejected; a failed readRune and a Peek leave the column alone.  So over a
\* whole call that returns no NewLine the column moves as the reader does.
C30_ColumnFollowsReader ==
    /\ [](LET r == readRune(Self)
          IN  /\ IF r.err = ErrNil
                 THEN /\ pos < Len(data) /\ r.ch = data[pos + 1]
                      /\ r.t.column = column + 1
                      /\ LET u == unreadRune(r.t)
                         IN  /\ u.err = ErrNil
                             /\ u.t.column = column /\ u.t.pos = pos
                             /\ readRune(u.t).err = ErrNil
                             /\ readRune(u.t).ch = r.ch
                             /\ readRune(u.t).t.column = column + 1
                             /\ unreadRune(u.t).err = ErrInvalidUnreadRune
                             /\ unreadRune(u.t).t.column = column
                 ELSE /\ pos = Len(data)
                      /\ r.t.column = column /\ r.t.pos = pos
              /\ Peek(Self).column = column /\ Peek(Self).pos = pos
              /\ Peek(r.t).column = r.t.column)
    /\ [][tk'.Type # TokenNewLine => column' - column = pos' - pos]_vars

\* a call that read the dash and the newline and unread the newline
C30_Witness ==
    /\ data = <<DASH, NL>> /\ Len(history) = 1 /\ tk.Type = TokenDash
    /\ pos = 1 /\ column = 1 /\ ~lastRune

====
